---- MODULE Spec2Model ----
(***************************************************************************)
(* A model of vast-api-client: the request models of models.py, the        *)
(* token-refresh-aware dispatcher of abstract_client.py and the resource   *)
(* operations of vast_api_client.py.                                       *)
(*                                                                         *)
(* Strings are sequences of one-character strings.  An optional value is   *)
(* a sequence of length 0 (Python None) or 1.  Tokens are strings, with    *)
(* "None" for Python None.                                                 *)
(***************************************************************************)
EXTENDS Integers, Sequences, FiniteSets, TLC

VARIABLES
    token,          \* AbstractClient.token
    refresh_token,  \* AbstractClient.refresh_token
    constructed,    \* VASTClient.__init__ has returned normally
    phase,          \* "idle": no call in progress, "running", "done": a call has ended
    op,             \* the client operation in progress, with its arguments
    stack,          \* the dispatcher frames of the call, innermost last
    ret,            \* the value the frame just popped returned, or NoRet
    log,            \* the HTTP exchanges of the current call, in order
    result,         \* how the last call ended
    built,          \* the last request model constructed (SpecModels)
    callers,        \* each concurrent caller's position in its call (SpecShared)
    issued          \* the token pairs the server has issued to them (SpecShared)

vars == <<token, refresh_token, constructed, phase, op, stack, ret, log, result, built,
          callers, issued>>

----------------------------------------------------------------------------
(* Bounds *)

MaxPathLen == 5     \* longest path string given to a request model
MaxLimit == 2       \* largest quota limit tried
MaxRetries == 3     \* largest retry budget _send_get_request is called with
MaxIssued == 3      \* most token pairs the server issues to concurrent callers

(* Program constants *)

DefaultRetries == 2
Forbidden == 403

----------------------------------------------------------------------------
(* Values *)

None == "None"
Absent == <<>>
Some(x) == <<x>>

\* the characters path strings are drawn from: a separator, a character of
\* the class [A-Za-z0-9_-] and a character outside it
Alphabet == {"/", "a", "."}

\* [A-Za-z0-9_-], as far as the characters used here go
NameChars == {"a", "b", "f", "t", "0", "_", "-"}

RECURSIVE StringsUpTo(_)
StringsUpTo(n) ==
    IF n = 0 THEN {<<>>}
    ELSE LET shorter == StringsUpTo(n - 1)
         IN  shorter \cup {Append(s, c) : s \in {x \in shorter : Len(x) = n - 1}, c \in Alphabet}

PathInputs == StringsUpTo(MaxPathLen)

LimitInputs == {Absent} \cup {Some(n) : n \in -1..MaxLimit}

----------------------------------------------------------------------------
(* pathlib.Path(s).as_posix() on a POSIX host *)

RECURSIVE SplitSlash(_)
SplitSlash(s) ==
    IF s = <<>> THEN << <<>> >>
    ELSE LET rest == SplitSlash(Tail(s))
         IN  IF Head(s) = "/" THEN << <<>> >> \o rest
             ELSE << <<Head(s)>> \o Head(rest) >> \o Tail(rest)

RECURSIVE LeadingSlashes(_)
LeadingSlashes(s) ==
    IF s # <<>> /\ Head(s) = "/" THEN 1 + LeadingSlashes(Tail(s)) ELSE 0

RECURSIVE JoinSlash(_)
JoinSlash(parts) ==
    IF parts = <<>> THEN <<>>
    ELSE IF Len(parts) = 1 THEN parts[1]
    ELSE parts[1] \o <<"/">> \o JoinSlash(Tail(parts))

\* the root pathlib keeps: exactly two leading slashes are kept as "//"
PathRoot(s) ==
    LET n == LeadingSlashes(s)
    IN  IF n = 0 THEN <<>> ELSE IF n = 2 THEN <<"/", "/">> ELSE <<"/">>

\* the parts pathlib keeps: empty and "." segments are dropped
PathParts(s) == SelectSeq(SplitSlash(s), LAMBDA x : x # <<>> /\ x # <<".">>)

as_posix(s) ==
    LET p == PathRoot(s) \o JoinSlash(PathParts(s))
    IN  IF p = <<>> THEN <<".">> ELSE p

\* re.match(r'^/([A-Za-z0-9_-]+/)*[A-Za-z0-9_-]+$', text)
MatchesPattern(text) ==
    /\ text # <<>>
    /\ Head(text) = "/"
    /\ LET segs == SplitSlash(Tail(text))
       IN  \A i \in 1..Len(segs) :
              /\ segs[i] # <<>>
              /\ \A j \in 1..Len(segs[i]) : segs[i][j] \in NameChars

\* validate_path(path): the pattern is applied to path.as_posix()
validate_path(s) == MatchesPattern(as_posix(s))

----------------------------------------------------------------------------
(* pydantic field handling *)

RECURSIVE LStrip(_)
LStrip(s) == IF s # <<>> /\ Head(s) = " " THEN LStrip(Tail(s)) ELSE s

RECURSIVE RStrip(_)
RStrip(s) ==
    IF s # <<>> /\ s[Len(s)] = " " THEN RStrip(SubSeq(s, 1, Len(s) - 1)) ELSE s

\* str_strip_whitespace=True
Strip(s) == LStrip(RStrip(s))

EndsWith(s, c) == s # <<>> /\ s[Len(s)] = c

\* An argument of a model constructor: left out, given as None, or given a value
Omitted == <<"omitted">>
GivenNone == <<"none">>
Given(x) == <<"value", x>>
IsValue(a) == a[1] = "value"

Fail(msg) == [ok |-> FALSE, err |-> msg]

\* PositiveInt
IsPositiveInt(v) == v # Absent /\ v[1] > 0

\* Optional[PositiveInt] = None
IsOptionalPositiveInt(v) == v = Absent \/ v[1] > 0

----------------------------------------------------------------------------
(* models.py: the request models.  A constructor returns [ok, err] when   *)
(* validation fails and [ok, err, model] when it succeeds; model holds the *)
(* attributes, a Path attribute as its as_posix() string.                  *)

ProtocolEnum == {"SMB", "NFS"}
PolicyEnum == {"SMBDefault", "SMBMigration"}

Built(m) == [ok |-> TRUE, err |-> "", model |-> m]

\* faulty variant of soft_limit_below_hard_limit: the comparison is missing
soft_limit_unchecked(soft, hard) ==
    Built(IF soft = Absent THEN hard ELSE soft[1])

\* QuotaCreate.soft_limit_below_hard_limit and QuotaUpdate's: both limits have
\* passed field validation, soft is optional
soft_limit_below_hard_limit(soft, hard) ==
    LET s == IF soft = Absent THEN hard ELSE soft[1]
    IN  IF hard < s
        THEN Fail("'soft_limit' cannot be larger than 'hard_limit'")
        ELSE Built(s)

QuotaCreate(name, path, soft, hard) ==
    IF ~validate_path(path) THEN Fail("path: invalid path")
    ELSE IF ~IsOptionalPositiveInt(soft) THEN Fail("soft_limit: not a positive integer")
    ELSE IF ~IsPositiveInt(hard) THEN Fail("hard_limit: not a positive integer")
    ELSE LET after == soft_limit_below_hard_limit(soft, hard[1])
         IN  IF ~after.ok THEN after
             ELSE Built([name |-> Strip(name),
                         path |-> as_posix(path),
                         soft_limit |-> after.model,
                         hard_limit |-> hard[1],
                         create_dir |-> FALSE])

QuotaUpdate(soft, hard) ==
    IF ~IsOptionalPositiveInt(soft) THEN Fail("soft_limit: not a positive integer")
    ELSE IF ~IsPositiveInt(hard) THEN Fail("hard_limit: not a positive integer")
    ELSE LET after == soft_limit_below_hard_limit(soft, hard[1])
         IN  IF ~after.ok THEN after
             ELSE Built([soft_limit |-> after.model, hard_limit |-> hard[1]])

\* ViewCreate.is_valid_share_name, on a share that is a string
is_valid_share_name(share) == EndsWith(share, "$")

\* ViewCreate.is_valid_protocols, on a set of ProtocolEnum members
is_valid_protocols(protocols) == protocols # {}

\* ViewCreate.share_if_smb, on the attributes after field validation
share_if_smb(protocols, share) == ~("SMB" \in protocols /\ share = Absent)

\* A field left out takes its default without being validated (pydantic does
\* not validate defaults); a field given is validated against its annotation
\* (str, InstanceOf[PolicyEnum], Set[InstanceOf[ProtocolEnum]]) and then by its
\* field validator.
ViewCreate(share, path, policy_id, protocols) ==
    LET shareBad == \/ share = GivenNone
                    \/ IsValue(share) /\ ~is_valid_share_name(Strip(share[2]))
        policyBad == \/ policy_id = GivenNone
                     \/ IsValue(policy_id) /\ policy_id[2] \notin PolicyEnum
        protocolsBad == \/ protocols = GivenNone
                        \/ IsValue(protocols) /\ ~(protocols[2] \subseteq ProtocolEnum)
                        \/ IsValue(protocols) /\ ~is_valid_protocols(protocols[2])
        shareVal == IF IsValue(share) THEN Some(Strip(share[2])) ELSE Absent
        policyVal == IF IsValue(policy_id) THEN Some(policy_id[2]) ELSE Absent
        protocolsVal == IF IsValue(protocols) THEN protocols[2] ELSE {}
    IN  IF shareBad THEN Fail("share: share_name must end with '$'")
        ELSE IF ~validate_path(path) THEN Fail("path: invalid path")
        ELSE IF policyBad THEN Fail("policy_id: not a PolicyEnum")
        ELSE IF protocolsBad THEN Fail("protocols: invalid")
        ELSE IF ~share_if_smb(protocolsVal, shareVal)
        THEN Fail("SMB views require a share name")
        ELSE Built([share |-> shareVal,
                    path |-> as_posix(path),
                    policy_id |-> policyVal,
                    protocols |-> protocolsVal,
                    create_dir |-> TRUE])

ProtectedPathCreate(name, source_dir, protection_policy_id, tenant_id) ==
    IF ~validate_path(source_dir) THEN Fail("source_dir: invalid path")
    ELSE Built([name |-> name,
                source_dir |-> as_posix(source_dir),
                enabled |-> TRUE,
                protection_policy_id |-> protection_policy_id,
                tenant_id |-> tenant_id])

PathBody(path) ==
    IF ~validate_path(path) THEN Fail("path: invalid path")
    ELSE Built([path |-> as_posix(path)])

\* user and group are annotated str with default None: None given explicitly
\* is not a str
FolderCreateOrUpdate(path, owner_is_group, user, group) ==
    IF ~validate_path(path) THEN Fail("path: invalid path")
    ELSE IF user = GivenNone THEN Fail("user: not a string")
    ELSE IF group = GivenNone THEN Fail("group: not a string")
    ELSE Built([path |-> as_posix(path),
                owner_is_group |-> IF IsValue(owner_is_group) THEN owner_is_group[2] ELSE FALSE,
                user |-> IF IsValue(user) THEN user[2] ELSE None,
                group |-> IF IsValue(group) THEN group[2] ELSE None])

\* ProtectionPolicyFrame(every, start_at, keep_local), keep_remote left out
ProtectionPolicyFrame(every, start_at, keep_local) ==
    IF every \notin {"1D", "1W", "1M", "1Y"} THEN Fail("every: Invalid value for 'every'")
    ELSE Built([every |-> every, start_at |-> start_at,
                keep_local |-> keep_local, keep_remote |-> "0s"])

\* ProtectionPolicyCreate(name, frames, prefix), frames a list of
\* ProtectionPolicyFrame objects, clone_type and indestructible left out
ProtectionPolicyCreate(name, frames, prefix) ==
    Built([name |-> name, frames |-> frames, prefix |-> prefix,
           clone_type |-> "LOCAL", indestructible |-> FALSE])

\* ConfigDict(extra=...) of each request model
model_config_extra ==
    [QuotaCreate |-> "forbid",
     ViewCreate |-> "forbid",
     ProtectionPolicyFrame |-> "forbid",
     ProtectionPolicyCreate |-> "forbid",
     ProtectedPathCreate |-> "forbid",
     PathBody |-> "allow",
     FolderCreateOrUpdate |-> "forbid",
     QuotaUpdate |-> "forbid"]

RequestModels == DOMAIN model_config_extra

\* pydantic, on keyword arguments whose names are outside the schema: with
\* extra='forbid' they are a validation error, with extra='allow' they are
\* kept on the model and emitted by model_dump(), with extra='ignore' they are
\* dropped.  res is the outcome of validating the fields of the schema; a
\* built model gets the names it keeps as `extra`.
WithExtra(policy, res, unknown) ==
    IF ~res.ok THEN res
    ELSE IF unknown # {} /\ policy = "forbid" THEN Fail("extra_forbidden")
    ELSE [ok |-> TRUE, err |-> "", model |-> res.model,
          extra |-> IF policy = "allow" THEN unknown ELSE {}]

\* each request model called with arguments its schema accepts when the path
\* is valid
WithSchemaFields(cls, path) ==
    CASE cls = "QuotaCreate" -> QuotaCreate(<<"t">>, path, Absent, Some(1))
      [] cls = "QuotaUpdate" -> QuotaUpdate(Absent, Some(1))
      [] cls = "ViewCreate" -> ViewCreate(Omitted, path, Given("SMBDefault"), Given({"NFS"}))
      [] cls = "ProtectionPolicyFrame" -> ProtectionPolicyFrame("1D", "s", "2M")
      [] cls = "ProtectionPolicyCreate" ->
            ProtectionPolicyCreate("n", <<ProtectionPolicyFrame("1D", "s", "2M").model>>, "p")
      [] cls = "ProtectedPathCreate" -> ProtectedPathCreate("p", path, 1, 1)
      [] cls = "PathBody" -> PathBody(path)
      [] cls = "FolderCreateOrUpdate" ->
            FolderCreateOrUpdate(path, Omitted, Given("u"), Given("g"))

----------------------------------------------------------------------------
(* SpecModels: one request model is constructed from arbitrary arguments *)

NotBuilt == [cls |-> "none"]

clientVars == <<token, refresh_token, constructed, phase, op, stack, ret, log, result,
               callers, issued>>

ShareInputs == {Omitted, GivenNone, Given(<<"f">>), Given(<<"f", "$">>), Given(<<"f", "$", " ">>)}
PolicyInputs == {Omitted, GivenNone, Given("SMBDefault"), Given("SMBMigration"), Given("5")}
ProtocolsInputs == {Omitted, GivenNone} \cup {Given(S) : S \in SUBSET {"SMB", "NFS", "FTP"}}
OwnerInputs == {Omitted, GivenNone, Given("g")}

ConstructQuotaCreate ==
    /\ built = NotBuilt
    /\ UNCHANGED clientVars
    /\ \E path \in PathInputs, soft \in LimitInputs, hard \in LimitInputs :
          built' = [cls |-> "QuotaCreate",
                    args |-> [path |-> path, soft_limit |-> soft, hard_limit |-> hard],
                    res |-> QuotaCreate(<<"t">>, path, soft, hard)]

ConstructQuotaUpdate ==
    /\ built = NotBuilt
    /\ UNCHANGED clientVars
    /\ \E soft \in LimitInputs, hard \in LimitInputs :
          built' = [cls |-> "QuotaUpdate",
                    args |-> [soft_limit |-> soft, hard_limit |-> hard],
                    res |-> QuotaUpdate(soft, hard)]

ConstructViewCreate ==
    /\ built = NotBuilt
    /\ UNCHANGED clientVars
    /\ \E path \in PathInputs, share \in ShareInputs,
          policy_id \in PolicyInputs, protocols \in ProtocolsInputs :
          built' = [cls |-> "ViewCreate",
                    args |-> [path |-> path, share |-> share,
                              policy_id |-> policy_id, protocols |-> protocols],
                    res |-> ViewCreate(share, path, policy_id, protocols)]

ConstructProtectedPathCreate ==
    /\ built = NotBuilt
    /\ UNCHANGED clientVars
    /\ \E path \in PathInputs :
          built' = [cls |-> "ProtectedPathCreate",
                    args |-> [path |-> path],
                    res |-> ProtectedPathCreate("p", path, 1, 1)]

ConstructPathBody ==
    /\ built = NotBuilt
    /\ UNCHANGED clientVars
    /\ \E path \in PathInputs :
          built' = [cls |-> "PathBody",
                    args |-> [path |-> path],
                    res |-> PathBody(path)]

ConstructFolderCreateOrUpdate ==
    /\ built = NotBuilt
    /\ UNCHANGED clientVars
    /\ \E path \in PathInputs, user \in OwnerInputs, group \in OwnerInputs :
          built' = [cls |-> "FolderCreateOrUpdate",
                    args |-> [path |-> path, user |-> user, group |-> group],
                    res |-> FolderCreateOrUpdate(path, Omitted, user, group)]

\* the names outside every schema a constructor is called with
UnknownFieldInputs == SUBSET {"x", "y"}

\* a request model called with its schema's fields and with keyword arguments
\* outside its schema
ConstructWithUnknownFields ==
    /\ built = NotBuilt
    /\ UNCHANGED clientVars
    /\ \E c \in RequestModels, path \in {<<"/", "a">>, <<"a">>},
          unknown \in UnknownFieldInputs :
          built' = [cls |-> "WithUnknownFields",
                    of |-> c,
                    args |-> [path |-> path, unknown |-> unknown],
                    res |-> WithExtra(model_config_extra[c], WithSchemaFields(c, path),
                                      unknown)]

NoOp == [name |-> "none"]
NoRet == [kind |-> "noret"]
NoResult == [kind |-> "none"]

\* the callers sharing one client, and a caller that is in no call
Callers == {1, 2}
IdleCaller == [pc |-> "idle", retries |-> 0, why |-> "", r |-> 0]

ClientInit ==
    /\ token = None
    /\ refresh_token = None
    /\ constructed = FALSE
    /\ phase = "idle"
    /\ op = NoOp
    /\ stack = <<>>
    /\ ret = NoRet
    /\ log = <<>>
    /\ result = NoResult
    /\ callers = [c \in Callers |-> IdleCaller]
    /\ issued = 0

InitModels == ClientInit /\ built = NotBuilt

NextModels ==
    \/ ConstructQuotaCreate
    \/ ConstructQuotaUpdate
    \/ ConstructViewCreate
    \/ ConstructProtectedPathCreate
    \/ ConstructPathBody
    \/ ConstructFolderCreateOrUpdate
    \/ ConstructWithUnknownFields

SpecModels == InitModels /\ [][NextModels]_vars

----------------------------------------------------------------------------
(* The server: what an HTTP exchange can answer.  A final status is 2xx,   *)
(* 4xx or 5xx; a body is JSON of the endpoint's shape or not JSON at all.  *)

Tokens == {"t1", "t2"}

NoBody == [kind |-> "empty"]
Detail == [kind |-> "detail"]
ListBody(S) == [kind |-> "list", items |-> S]
TokenBody(a, r) == [kind |-> "tokens", access |-> a, refresh |-> r]

ErrorResponses ==
    {[status |-> Forbidden, body |-> b] : b \in {Detail, NoBody}}
        \cup {[status |-> 500, body |-> Detail]}

ResourceResponses ==
    {[status |-> 200, body |-> b] :
        b \in {ListBody({}), ListBody({<<"/", "a">>}), NoBody}}
        \cup {[status |-> 204, body |-> NoBody]}
        \cup ErrorResponses

\* the pairs the server issues: the two tokens of a pair differ
TokenPairs == {<<a, r>> \in Tokens \X Tokens : a # r}

TokenResponses ==
    {[status |-> 200, body |-> TokenBody(p[1], p[2])] : p \in TokenPairs}
        \cup {[status |-> 200, body |-> NoBody]}
        \cup ErrorResponses

TokenEndpoints == {"token/", "token/refresh/"}

Responses(endpoint) ==
    IF endpoint \in TokenEndpoints THEN TokenResponses ELSE ResourceResponses

NoResp == [status |-> 0, body |-> NoBody]

\* requests.Response.raise_for_status raises HTTPError on 4xx and 5xx
raise_for_status(status) == status >= 400 /\ status < 600

\* requests.Response.json raises JSONDecodeError on a body that is not JSON
CanDecode(body) == body.kind # "empty"

\* how a call ends
Returned(v) == [kind |-> "return", value |-> v]
Raised(exc, status) == [kind |-> "raise", exc |-> exc, status |-> status]
NoneValue == [kind |-> "None"]
StatusValue(s) == [kind |-> "status", status |-> s]

----------------------------------------------------------------------------
(* abstract_client.py: the dispatcher.  A frame is one call of             *)
(* _send_get_request, _send_body or _send_delete_request; token0 and       *)
(* refresh0 record the session as the call began.                          *)

NoHeader == "-"
NoData == [none |-> TRUE]

Frame(fn, method, endpoint, data, retries, skip_auth, why, tok, ref) ==
    [fn |-> fn, method |-> method, endpoint |-> endpoint, data |-> data,
     retries |-> retries, skip_auth |-> skip_auth, why |-> why,
     pc |-> "start", r |-> NoResp, token0 |-> tok, refresh0 |-> ref]

_send_get_request(endpoint, params, retries, tok, ref) ==
    Frame("get", "GET", endpoint, params, retries, FALSE, "resource", tok, ref)

_send_body(http_method, endpoint, payload, skip_auth, why, tok, ref) ==
    Frame("body", http_method, endpoint, payload, 0, skip_auth, why, tok, ref)

_send_post_request(endpoint, payload, tok, ref) ==
    _send_body("POST", endpoint, payload, FALSE, "resource", tok, ref)

_send_patch_request(endpoint, payload, tok, ref) ==
    _send_body("PATCH", endpoint, payload, FALSE, "resource", tok, ref)

\* with a body the call is _send_body('DELETE', ...)
_send_delete_request(endpoint, body, tok, ref) ==
    IF body # Absent
    THEN _send_body("DELETE", endpoint, body[1], FALSE, "resource", tok, ref)
    ELSE Frame("delete", "DELETE", endpoint, NoData, 0, FALSE, "resource", tok, ref)

\* renew_token(refresh_token) up to its POST
renew_token(ref, why) ==
    _send_body("POST", "token/refresh/", [refresh |-> ref], TRUE, why, token, refresh_token)

\* faulty variant of StoredPair: the refresh token of the response is not stored
StoredPairAccessOnly(tok, ref, r) == [access |-> r.access, refresh |-> ref]

\* faulty variant of StoredPair: a renewal leaves no refresh token behind
StoredPairRefreshDropped(tok, ref, r) == [access |-> r.access, refresh |-> None]

\* the pair renew_token and get_token store from the response r
StoredPair(tok, ref, r) == [access |-> r.access, refresh |-> r.refresh]

\* faulty variant of Authorization: skip_auth is not looked at
AuthorizationAlways(skip_auth) == token

\* 'Authorization' of _get_headers
Authorization(skip_auth) == IF skip_auth THEN NoHeader ELSE token

\* faulty variant of NeedsRenewal: the test of the refresh token inverted
NeedsRenewalInverted(tok, ref) == tok = None /\ ref = None

\* `self.token is None and self.refresh_token is not None`
NeedsRenewal(tok, ref) == tok = None /\ ref # None

\* faulty variants of ShouldRetry: one more retry than the budget allows; a
\* retry on any HTTP error
ShouldRetryOnceMore(status, retries, ref) ==
    ref # None /\ retries >= 0 /\ status = Forbidden

ShouldRetryAnyError(status, retries, ref) ==
    ref # None /\ retries > 0

\* the condition under which the except branch of _send_get_request retries
ShouldRetry(status, retries, ref) ==
    ref # None /\ retries > 0 /\ status = Forbidden

\* what _send_get_request returns after its recursive call returned `inner`:
\* the call's value is dropped and r.json() of the frame's own response is returned
ValueAfterRetry(own, inner) == own

ValidBodyMethods == {"POST", "PUT", "PATCH", "DELETE"}

Top == stack[Len(stack)]
Pop == SubSeq(stack, 1, Len(stack) - 1)
SetTop(f) == [stack EXCEPT ![Len(stack)] = f]

InFrame(fn) ==
    /\ phase = "running"
    /\ stack # <<>>
    /\ ret = NoRet
    /\ Top.fn = fn

\* the frame is past its lazy renewal, or needs none
Ready(f) ==
    \/ f.pc = "request"
    \/ f.pc = "start" /\ ~(~f.skip_auth /\ NeedsRenewal(token, refresh_token))

Exchange(f, resp) ==
    [method |-> f.method, endpoint |-> f.endpoint, data |-> f.data,
     auth |-> Authorization(f.skip_auth),
     status |-> resp.status, body |-> resp.body,
     why |-> f.why, retries |-> f.retries,
     token0 |-> f.token0, refresh0 |-> f.refresh0,
     hadRefresh |-> refresh_token # None]

\* an exception no frame handles unwinds the whole call
Raise(exc, status) ==
    /\ stack' = <<>>
    /\ ret' = NoRet
    /\ result' = Raised(exc, status)
    /\ phase' = "done"

Return(v) ==
    /\ stack' = Pop
    /\ ret' = v
    /\ UNCHANGED <<result, phase>>

\* lines 26-27, 51-52, 72-73: the renewal before the request
LazyRenew ==
    /\ phase = "running" /\ stack # <<>> /\ ret = NoRet
    /\ Top.pc = "start"
    /\ ~Top.skip_auth
    /\ NeedsRenewal(token, refresh_token)
    /\ stack' = Append(SetTop([Top EXCEPT !.pc = "lazy"]), renew_token(refresh_token, "lazy"))
    /\ UNCHANGED <<token, refresh_token, constructed, phase, op, ret, log, result, built, callers, issued>>

\* lines 29-42 up to the recursive call
SendGet ==
    /\ InFrame("get")
    /\ Ready(Top)
    /\ \E resp \in Responses(Top.endpoint) :
          /\ log' = Append(log, Exchange(Top, resp))
          /\ IF ~raise_for_status(resp.status)
             THEN IF CanDecode(resp.body)
                  THEN Return(resp.body)
                  ELSE Raise("JSONDecodeError", resp.status)
             ELSE IF ShouldRetry(resp.status, Top.retries, refresh_token)
                  THEN /\ stack' = Append(SetTop([Top EXCEPT !.pc = "renewing", !.r = resp]),
                                          renew_token(refresh_token, "retry"))
                       /\ UNCHANGED <<ret, result, phase>>
                  ELSE Raise("HTTPError", resp.status)
    /\ UNCHANGED <<token, refresh_token, constructed, op, built, callers, issued>>

\* lines 54-67
SendBody ==
    /\ InFrame("body")
    /\ Ready(Top)
    /\ IF Top.method \notin ValidBodyMethods
       THEN Raise("ValueError", 0) /\ UNCHANGED log
       ELSE \E resp \in Responses(Top.endpoint) :
               /\ log' = Append(log, Exchange(Top, resp))
               /\ IF raise_for_status(resp.status)
                  THEN Raise("HTTPError", resp.status)
                  ELSE IF CanDecode(resp.body)
                       THEN Return(resp.body)
                       ELSE Raise("JSONDecodeError", resp.status)
    /\ UNCHANGED <<token, refresh_token, constructed, op, built, callers, issued>>

\* faulty variant of DeleteResult: the body of the response is returned
DeleteResultFromBody(r) == r.body

\* line 81: {'status': r.status_code}
DeleteResult(r) == StatusValue(r.status)

\* lines 75-81
SendDelete ==
    /\ InFrame("delete")
    /\ Ready(Top)
    /\ \E resp \in Responses(Top.endpoint) :
          /\ log' = Append(log, Exchange(Top, resp))
          /\ IF raise_for_status(resp.status)
             THEN Raise("HTTPError", resp.status)
             ELSE Return(DeleteResult(resp))
    /\ UNCHANGED <<token, refresh_token, constructed, op, built, callers, issued>>

\* renew_token lines 48-49, back in the frame that called it: after a lazy
\* renewal the frame sends its request, after a renewal on 403 it calls
\* itself with retries - 1
ResumeRenew ==
    /\ phase = "running" /\ stack # <<>> /\ ret # NoRet
    /\ Top.pc \in {"lazy", "renewing"}
    /\ LET pair == StoredPair(token, refresh_token, ret)
       IN  /\ token' = pair.access
           /\ refresh_token' = pair.refresh
           /\ stack' = IF Top.pc = "lazy"
                       THEN SetTop([Top EXCEPT !.pc = "request"])
                       ELSE Append(SetTop([Top EXCEPT !.pc = "retried"]),
                                   _send_get_request(Top.endpoint, Top.data, Top.retries - 1,
                                                     pair.access, pair.refresh))
    /\ ret' = NoRet
    /\ UNCHANGED <<constructed, phase, op, log, result, built, callers, issued>>

\* lines 39 and 42: the recursive call has returned
ResumeRetry ==
    /\ phase = "running" /\ stack # <<>> /\ ret # NoRet
    /\ Top.pc = "retried"
    /\ IF CanDecode(Top.r.body)
       THEN Return(ValueAfterRetry(Top.r.body, ret))
       ELSE Raise("JSONDecodeError", Top.r.status)
    /\ UNCHANGED <<token, refresh_token, constructed, op, log, built, callers, issued>>

----------------------------------------------------------------------------
(* vast_api_client.py: the client operations *)

\* the paths, as Path objects, the operations are called with: two the
\* pattern accepts and one it rejects
OpPaths == {<<"/", "a">>, <<"/", "b">>, <<"a">>}
OptionalPaths == {Absent} \cup {Some(p) : p \in OpPaths}
OptionalInts == {Absent, Some(1)}

\* the call ends before any dispatcher call is made
EndAtOnce(o, res) ==
    /\ phase = "idle"
    /\ op' = o
    /\ phase' = "done"
    /\ stack' = <<>>
    /\ ret' = NoRet
    /\ log' = <<>>
    /\ result' = res
    /\ UNCHANGED <<built, callers, issued>>

\* the call reaches its first dispatcher call
Dispatch(o, frame) ==
    /\ phase = "idle"
    /\ op' = o
    /\ phase' = "running"
    /\ stack' = <<frame>>
    /\ ret' = NoRet
    /\ log' = <<>>
    /\ result' = NoResult
    /\ UNCHANGED <<built, callers, issued>>

ValidationError == Raised("ValidationError", 0)

\* line 26: `token is not None and refresh_token is not None`
HasTokenPair(tok, ref) == tok # None /\ ref # None

\* faulty variant of HasCredentials: one of user and password is enough
HasCredentialsEither(user, password) == user \/ password

\* line 29: `user is not None and password is not None`; user and password
\* stand for "is given"
HasCredentials(user, password) == user /\ password

\* VASTClient.__init__, up to the POST of get_token when credentials are used
Construct ==
    /\ phase = "idle"
    /\ ~constructed
    /\ \E tok \in {None, "t1"}, ref \in {None, "t2"},
          user \in BOOLEAN, password \in BOOLEAN :
          LET o == [name |-> "__init__", token |-> tok, refresh_token |-> ref,
                    user |-> user, password |-> password]
          IN  IF HasTokenPair(tok, ref)
              THEN /\ EndAtOnce(o, Returned(NoneValue))
                   /\ token' = tok
                   /\ refresh_token' = ref
                   /\ constructed' = TRUE
              ELSE IF HasCredentials(user, password)
              THEN /\ Dispatch(o, _send_body("POST", "token/", [username |-> "u", password |-> "p"],
                                             TRUE, "login", token, refresh_token))
                   /\ UNCHANGED <<token, refresh_token, constructed>>
              ELSE /\ EndAtOnce(o, Raised("ValueError", 0))
                   /\ UNCHANGED <<token, refresh_token, constructed>>

\* get_token lines 42-43, then __init__ returns
FinishConstruct ==
    /\ phase = "running" /\ stack = <<>> /\ ret # NoRet
    /\ op.name = "__init__"
    /\ LET pair == StoredPair(token, refresh_token, ret)
       IN  /\ token' = pair.access
           /\ refresh_token' = pair.refresh
    /\ constructed' = TRUE
    /\ phase' = "done"
    /\ result' = Returned(NoneValue)
    /\ ret' = NoRet
    /\ UNCHANGED <<op, stack, log, built, callers, issued>>

\* the holder of the client drops the access token: `token` goes back to its
\* class default, the state the lazy renewal is written for
ClearToken ==
    /\ phase = "idle" /\ constructed
    /\ token # None
    /\ token' = None
    /\ UNCHANGED <<refresh_token, constructed, phase, op, stack, ret, log, result, built, callers, issued>>

\* the constructed client is between calls
Idle == phase = "idle" /\ constructed

\* a resource operation leaves the session as it is until a dispatcher call runs
SessionKept == UNCHANGED <<token, refresh_token, constructed>>

get_quotas ==
    /\ Idle
    /\ \E path \in OptionalPaths :
          LET o == [name |-> "get_quotas", path |-> path]
              body == PathBody(path[1])
          IN  IF path = Absent
              THEN Dispatch(o, _send_get_request("quotas/", NoData, DefaultRetries,
                                                 token, refresh_token))
              ELSE IF ~body.ok THEN EndAtOnce(o, ValidationError)
              ELSE Dispatch(o, _send_get_request("quotas/", body.model, DefaultRetries,
                                                 token, refresh_token))
    /\ SessionKept

get_views ==
    /\ Idle
    /\ \E path \in OptionalPaths :
          LET o == [name |-> "get_views", path |-> path]
              body == PathBody(path[1])
          IN  IF path = Absent
              THEN Dispatch(o, _send_get_request("views/", NoData, DefaultRetries,
                                                 token, refresh_token))
              ELSE IF ~body.ok THEN EndAtOnce(o, ValidationError)
              ELSE Dispatch(o, _send_get_request("views/", body.model, DefaultRetries,
                                                 token, refresh_token))
    /\ SessionKept

\* an argument passed on by keyword, None included
Passed(x) == IF x = Absent THEN GivenNone ELSE Given(x[1])

PolicyValue(p) == IF p = "SMBDefault" THEN 5 ELSE 6

\* ViewCreate.model_dump()
ViewDump(m) == [m EXCEPT !.policy_id = PolicyValue(m.policy_id[1])]

\* add_view: with share_name the source builds ShareCreate, a name models.py
\* does not define; that branch is taken as ViewCreate with the share given
add_view ==
    /\ Idle
    /\ \E path \in OpPaths, protocols \in {Absent, Some({"SMB"}), Some({"NFS"})},
          share_name \in {Absent, Some(<<"f">>), Some(<<"f", "$">>)},
          policy_id \in {Absent, Some("SMBDefault")}, dry_run \in BOOLEAN :
          LET o == [name |-> "add_view", path |-> path, protocols |-> protocols,
                    share_name |-> share_name, policy_id |-> policy_id, dry_run |-> dry_run]
              vc == IF share_name = Absent
                    THEN ViewCreate(Omitted, path, Passed(policy_id), Passed(protocols))
                    ELSE ViewCreate(Passed(share_name), path, Passed(policy_id),
                                    Passed(protocols))
          IN  IF ~vc.ok THEN EndAtOnce(o, ValidationError)
              ELSE IF ~dry_run
              THEN Dispatch(o, _send_post_request("views/", ViewDump(vc.model),
                                                  token, refresh_token))
              ELSE EndAtOnce(o, Returned(NoneValue))
    /\ SessionKept

\* name[:-1] if name.endswith('$') else name
StripDollar(name) ==
    IF EndsWith(name, "$") THEN SubSeq(name, 1, Len(name) - 1) ELSE name

add_quota ==
    /\ Idle
    /\ \E name \in {<<"t">>, <<"t", "$">>}, path \in OpPaths,
          hard_limit \in {Some(0), Some(1), Some(2)},
          soft_limit \in {Absent, Some(1), Some(2)}, dry_run \in BOOLEAN :
          LET o == [name |-> "add_quota", qname |-> name, path |-> path,
                    hard_limit |-> hard_limit, soft_limit |-> soft_limit,
                    dry_run |-> dry_run]
              qc == QuotaCreate(StripDollar(name), path, soft_limit, hard_limit)
          IN  IF ~qc.ok THEN EndAtOnce(o, ValidationError)
              ELSE IF dry_run THEN EndAtOnce(o, Returned(NoneValue))
              ELSE Dispatch(o, _send_post_request("quotas/", qc.model,
                                                  token, refresh_token))
    /\ SessionKept

Owners == {None, "g", "u"}
PassedName(x) == IF x = None THEN GivenNone ELSE Given(x)

add_folder ==
    /\ Idle
    /\ \E path \in OpPaths, user \in Owners :
          LET o == [name |-> "add_folder", path |-> path, group |-> "g", user |-> user]
              owner_is_group == ("g" = user)
              folder == FolderCreateOrUpdate(path, Given(owner_is_group),
                                             PassedName(user), Given("g"))
          IN  IF ~folder.ok THEN EndAtOnce(o, ValidationError)
              ELSE Dispatch(o, _send_post_request("folders/create_folder/", folder.model,
                                                  token, refresh_token))
    /\ SessionKept

\* model_dump(exclude_unset=True, exclude_defaults=True): a field is kept
\* when it was passed and differs from its default
FolderDumpSet(m) ==
    [path |-> m.path,
     group |-> m.group,
     user |-> IF m.user = None THEN Absent ELSE Some(m.user),
     owner_is_group |-> IF m.owner_is_group THEN Some(TRUE) ELSE Absent]

\* owner_is_group is a comparison, never None: of the four branches the two
\* testing it for None are never taken
modify_folder ==
    /\ Idle
    /\ \E path \in OpPaths, user \in Owners :
          LET o == [name |-> "modify_folder", path |-> path, group |-> "g", user |-> user]
              owner_is_group == ("g" = user)
              folder == IF user = None
                        THEN FolderCreateOrUpdate(path, Given(owner_is_group),
                                                  Omitted, Given("g"))
                        ELSE FolderCreateOrUpdate(path, Given(owner_is_group),
                                                  Given(user), Given("g"))
          IN  IF ~folder.ok THEN EndAtOnce(o, ValidationError)
              ELSE Dispatch(o, _send_post_request("folders/create_folder/",
                                                  FolderDumpSet(folder.model),
                                                  token, refresh_token))
    /\ SessionKept

\* body = PathBody(path).model_dump(), with tenant_id when it is given
PathAndTenant(body, tenant_id) == [path |-> body.path, tenant_id |-> tenant_id]

delete_folder ==
    /\ Idle
    /\ \E path \in OpPaths, tenant_id \in OptionalInts :
          LET o == [name |-> "delete_folder", path |-> path, tenant_id |-> tenant_id]
              body == PathBody(path)
          IN  IF ~body.ok THEN EndAtOnce(o, ValidationError)
              ELSE Dispatch(o, _send_delete_request("folders/delete_folder/",
                                                    Some(PathAndTenant(body.model, tenant_id)),
                                                    token, refresh_token))
    /\ SessionKept

get_folder ==
    /\ Idle
    /\ \E path \in OpPaths, tenant_id \in OptionalInts :
          LET o == [name |-> "get_folder", path |-> path, tenant_id |-> tenant_id]
              body == PathBody(path)
          IN  IF ~body.ok THEN EndAtOnce(o, ValidationError)
              ELSE Dispatch(o, _send_post_request("folders/stat_path/",
                                                  PathAndTenant(body.model, tenant_id),
                                                  token, refresh_token))
    /\ SessionKept

\* an argument that is not an int is given as Absent
update_quota_size ==
    /\ Idle
    /\ \E quota_id \in OptionalInts, new_size \in {Absent, Some(0), Some(1)} :
          LET o == [name |-> "update_quota_size", quota_id |-> quota_id,
                    new_size |-> new_size]
              body == QuotaUpdate(new_size, new_size)
          IN  IF quota_id = Absent \/ new_size = Absent
              THEN EndAtOnce(o, Raised("TypeError", 0))
              ELSE IF ~body.ok THEN EndAtOnce(o, ValidationError)
              ELSE Dispatch(o, _send_patch_request("quotas/" \o ToString(quota_id[1]) \o "/",
                                                   body.model, token, refresh_token))
    /\ SessionKept

delete_quota ==
    /\ Idle
    /\ \E quota_id \in OptionalInts :
          LET o == [name |-> "delete_quota", quota_id |-> quota_id]
          IN  IF quota_id = Absent
              THEN EndAtOnce(o, Raised("TypeError", 0))
              ELSE Dispatch(o, _send_delete_request("quotas/" \o ToString(quota_id[1]) \o "/",
                                                    Absent, token, refresh_token))
    /\ SessionKept

get_total_capacity ==
    /\ Idle
    /\ Dispatch([name |-> "get_total_capacity"],
                _send_get_request("capacity/", NoData, DefaultRetries, token, refresh_token))
    /\ SessionKept

get_protected_paths ==
    /\ Idle
    /\ \E source_dir \in OptionalPaths :
          Dispatch([name |-> "get_protected_paths", source_dir |-> source_dir],
                   _send_get_request("protectedpaths/",
                                     IF source_dir = Absent THEN NoData
                                     ELSE [source_dir |-> as_posix(source_dir[1])],
                                     DefaultRetries, token, refresh_token))
    /\ SessionKept

\* add_protected_path up to its GET (line 212)
add_protected_path ==
    /\ Idle
    /\ \E source_dir \in OpPaths :
          Dispatch([name |-> "add_protected_path", source_dir |-> source_dir],
                   _send_get_request("protectedpaths/",
                                     [source_dir |-> as_posix(source_dir)],
                                     DefaultRetries, token, refresh_token))
    /\ SessionKept

\* add_protected_path lines 213-216, once the GET has returned; what it
\* returned is a list of records, or (after a retry) the error object of the
\* rejected response, whose keys have no 'source_dir'
add_protected_path_checked ==
    /\ phase = "running" /\ stack = <<>> /\ ret # NoRet
    /\ op.name = "add_protected_path"
    /\ log[Len(log)].method = "GET"
    /\ IF ret.kind # "list"
       THEN Raise("TypeError", 0)
       ELSE IF as_posix(op.source_dir) \in ret.items
       THEN Raise("ResourceExistsError", 0)
       ELSE LET ppc == ProtectedPathCreate("p", op.source_dir, 1, 1)
            IN  IF ~ppc.ok
                THEN Raise("ValidationError", 0)
                ELSE /\ stack' = <<_send_post_request("protectedpaths/", ppc.model,
                                                      token, refresh_token)>>
                     /\ ret' = NoRet
                     /\ UNCHANGED <<result, phase>>
    /\ UNCHANGED <<token, refresh_token, constructed, op, log, built, callers, issued>>

\* `id is not None` tests the builtin, which is never None: the first branch
\* is always taken and the others never
get_protection_policies ==
    /\ Idle
    /\ \E pname \in {None, "n"}, policy_id \in OptionalInts,
          source_dir \in {Absent, Some(<<"/", "a">>)} :
          Dispatch([name |-> "get_protection_policies", pname |-> pname,
                    policy_id |-> policy_id, source_dir |-> source_dir],
                   _send_get_request("protectionpolicies/"
                                         \o (IF policy_id = Absent THEN "None"
                                             ELSE ToString(policy_id[1])) \o "/",
                                     NoData, DefaultRetries, token, refresh_token))
    /\ SessionKept

\* the operation returns what its last dispatcher call returned
FinishCall ==
    /\ phase = "running" /\ stack = <<>> /\ ret # NoRet
    /\ op.name # "__init__"
    /\ ~(op.name = "add_protected_path" /\ log[Len(log)].method = "GET")
    /\ result' = Returned(ret)
    /\ phase' = "done"
    /\ ret' = NoRet
    /\ UNCHANGED <<token, refresh_token, constructed, op, stack, log, built, callers, issued>>

\* the caller has the outcome and may make its next call
NextCall ==
    /\ phase = "done"
    /\ phase' = "idle"
    /\ op' = NoOp
    /\ log' = <<>>
    /\ result' = NoResult
    /\ UNCHANGED <<token, refresh_token, constructed, stack, ret, built, callers, issued>>

Init == ClientInit /\ built = NotBuilt

Next ==
    \/ Construct
    \/ FinishConstruct
    \/ ClearToken
    \/ get_quotas
    \/ get_views
    \/ add_view
    \/ add_quota
    \/ add_folder
    \/ modify_folder
    \/ delete_folder
    \/ get_folder
    \/ update_quota_size
    \/ delete_quota
    \/ get_total_capacity
    \/ get_protected_paths
    \/ add_protected_path
    \/ add_protected_path_checked
    \/ get_protection_policies
    \/ LazyRenew
    \/ SendGet
    \/ SendBody
    \/ SendDelete
    \/ ResumeRenew
    \/ ResumeRetry
    \/ FinishCall
    \/ NextCall

Spec == Init /\ [][Next]_vars

----------------------------------------------------------------------------
(* _send_get_request called with a retry budget of the caller's choice *)

call_send_get_request ==
    /\ Idle
    /\ \E n \in 0..MaxRetries :
          Dispatch([name |-> "_send_get_request", retries |-> n],
                   _send_get_request("capacity/", NoData, n, token, refresh_token))
    /\ SessionKept

NextBudget ==
    \/ Construct
    \/ FinishConstruct
    \/ ClearToken
    \/ call_send_get_request
    \/ LazyRenew
    \/ SendGet
    \/ SendBody
    \/ ResumeRenew
    \/ ResumeRetry
    \/ FinishCall
    \/ NextCall

\* a call in progress takes its next step: the code is sequential and every
\* request has a timeout, so an exchange ends and the statement after it runs
CallProceeds ==
    \/ FinishConstruct
    \/ LazyRenew
    \/ SendGet
    \/ SendBody
    \/ ResumeRenew
    \/ ResumeRetry
    \/ FinishCall

SpecBudget == Init /\ [][NextBudget]_vars /\ WF_vars(CallProceeds)

----------------------------------------------------------------------------
(* One client shared by concurrent callers.  Each caller runs                *)
(* _send_get_request in a thread of its own; the attributes token and        *)
(* refresh_token are shared and nothing in the code serializes the callers,  *)
(* so their steps interleave at every attribute access and HTTP exchange.    *)

\* the pair of the server's k-th successful renewal
IssuedPair(k) == TokenBody("a" \o ToString(k), "r" \o ToString(k))

SetCaller(c, rec) == callers' = [callers EXCEPT ![c] = rec]

\* a caller enters _send_get_request(endpoint) with the default budget
caller_send_get_request ==
    /\ Idle
    /\ \E c \in Callers :
          /\ callers[c].pc = "idle"
          /\ SetCaller(c, [IdleCaller EXCEPT !.pc = "entered", !.retries = DefaultRetries])
    /\ UNCHANGED <<token, refresh_token, constructed, phase, op, stack, ret, log, result,
                   built, issued>>

\* lines 26-33: the test of the session, after which either the POST of
\* renew_token or the GET is in flight
caller_enters ==
    /\ \E c \in Callers :
          /\ callers[c].pc = "entered"
          /\ IF NeedsRenewal(token, refresh_token)
             THEN SetCaller(c, [callers[c] EXCEPT !.pc = "renewing", !.why = "lazy"])
             ELSE SetCaller(c, [callers[c] EXCEPT !.pc = "getting"])
    /\ UNCHANGED <<token, refresh_token, constructed, phase, op, stack, ret, log, result,
                   built, issued>>

\* lines 34-42: the GET is answered; on 403 with budget left the POST of
\* renew_token is in flight next
get_answered ==
    /\ \E c \in Callers, status \in {200, Forbidden, 500} :
          /\ callers[c].pc = "getting"
          /\ IF ~raise_for_status(status) THEN SetCaller(c, IdleCaller)
             ELSE IF ShouldRetry(status, callers[c].retries, refresh_token)
             THEN SetCaller(c, [callers[c] EXCEPT !.pc = "renewing", !.why = "retry"])
             ELSE SetCaller(c, IdleCaller)
    /\ UNCHANGED <<token, refresh_token, constructed, phase, op, stack, ret, log, result,
                   built, issued>>

\* renew_token line 47: the POST token/refresh/ is answered, with a new pair or
\* with an error, which ends the caller's call
renewal_answered ==
    /\ \E c \in Callers :
          /\ callers[c].pc = "renewing"
          /\ \/ /\ issued < MaxIssued
                /\ issued' = issued + 1
                /\ SetCaller(c, [callers[c] EXCEPT !.pc = "store_access", !.r = issued + 1])
             \/ /\ SetCaller(c, IdleCaller)
                /\ UNCHANGED issued
    /\ UNCHANGED <<token, refresh_token, constructed, phase, op, stack, ret, log, result,
                   built>>

\* renew_token line 48: self.token = r['access']
caller_stores_access ==
    /\ \E c \in Callers :
          /\ callers[c].pc = "store_access"
          /\ token' = StoredPair(token, refresh_token, IssuedPair(callers[c].r)).access
          /\ SetCaller(c, [callers[c] EXCEPT !.pc = "store_refresh"])
    /\ UNCHANGED <<refresh_token, constructed, phase, op, stack, ret, log, result,
                   built, issued>>

\* renew_token line 49: self.refresh_token = r['refresh']; after a lazy
\* renewal the GET follows, after a renewal on 403 the call of line 39
caller_stores_refresh ==
    /\ \E c \in Callers :
          /\ callers[c].pc = "store_refresh"
          /\ refresh_token' = StoredPair(token, refresh_token, IssuedPair(callers[c].r)).refresh
          /\ IF callers[c].why = "lazy"
             THEN SetCaller(c, [callers[c] EXCEPT !.pc = "getting", !.r = 0])
             ELSE SetCaller(c, [callers[c] EXCEPT !.pc = "entered", !.r = 0,
                                                  !.retries = callers[c].retries - 1])
    /\ UNCHANGED <<token, constructed, phase, op, stack, ret, log, result,
                   built, issued>>

NextShared ==
    \/ Construct
    \/ SendBody
    \/ FinishConstruct
    \/ NextCall
    \/ ClearToken
    \/ caller_send_get_request
    \/ caller_enters
    \/ get_answered
    \/ renewal_answered
    \/ caller_stores_access
    \/ caller_stores_refresh

SpecShared == Init /\ [][NextShared]_vars

----------------------------------------------------------------------------
(* Properties of one call, read off its log of HTTP exchanges *)

Entries == 1..Len(log)
Failed(e) == raise_for_status(e.status)
Gets == {i \in Entries : log[i].method = "GET"}
RetryRenewals == {i \in Entries : log[i].why = "retry"}
IsRefresh(e) == e.endpoint = "token/refresh/"
Renewed(e) == IsRefresh(e) /\ ~Failed(e) /\ e.body.kind = "tokens"

\* a GET answered 403 while a refresh token is stored and budget remains
RetriableGet(e) ==
    e.method = "GET" /\ e.status = Forbidden /\ e.hadRefresh /\ e.retries > 0

C2_OnlyGet403Retries ==
    /\ \A i \in Entries :
          (Failed(log[i]) /\ ~RetriableGet(log[i])) =>
             /\ i = Len(log)
             /\ phase = "done"
             /\ result = Raised("HTTPError", log[i].status)
             /\ log[i].method # "GET" =>
                   \A j \in Entries \ {i} :
                      log[j].method = "GET" \/ log[j].endpoint \in TokenEndpoints
    /\ \A j \in RetryRenewals : j > 1 /\ RetriableGet(log[j - 1])
    /\ \A i \in Gets :
          log[i].retries < DefaultRetries =>
             /\ i > 2
             /\ log[i - 1].why = "retry"
             /\ RetriableGet(log[i - 2])

\* C2 witness: a POST of a resource answered 403 ended the call
C2_Post403Raised ==
    /\ phase = "done"
    /\ log # <<>>
    /\ log[Len(log)].method = "POST"
    /\ log[Len(log)].why = "resource"
    /\ log[Len(log)].status = Forbidden
    /\ result = Raised("HTTPError", Forbidden)

ReadOps == {"get_quotas", "get_views", "get_total_capacity",
            "get_protected_paths", "get_protection_policies"}

\* C3: when a GET answered 403 is renewed and re-issued and the re-issued GET
\* is answered 2xx, every response of the call carrying JSON, the call returns
\* the body of that 2xx response.
C3_ReturnsRetriedBody ==
    (/\ phase = "done"
     /\ op.name \in ReadOps
     /\ Len(log) >= 3
     /\ \A i \in Entries : CanDecode(log[i].body)
     /\ log[Len(log)].method = "GET"
     /\ ~Failed(log[Len(log)])
     /\ CanDecode(log[Len(log)].body)
     /\ log[Len(log) - 1].why = "retry")
        => result = Returned(log[Len(log)].body)

\* C4: add_quota sends GET quotas/?path=<path> before its POST quotas/, whose
\* body has soft_limit = hard_limit (no soft limit given) and create_dir false.
C4_QuotaLookupBeforePost ==
    op.name = "add_quota" =>
       \A i \in Entries :
          (log[i].method = "POST" /\ log[i].endpoint = "quotas/") =>
             /\ \E j \in 1..(i - 1) :
                   /\ log[j].method = "GET"
                   /\ log[j].endpoint = "quotas/"
             /\ log[i].data.create_dir = FALSE
             /\ op.soft_limit = Absent => log[i].data.soft_limit = log[i].data.hard_limit

\* C5: an operation that ends with the validation error of a request model
\* has sent no HTTP request.
C5_ValidationBeforeAnyRequest ==
    (phase = "done" /\ result = ValidationError) => log = <<>>

\* C9: a dispatcher call that sends an Authorization header and began with no
\* access token and a refresh token stored sends its request right after a
\* successful token/refresh/ exchange, carrying the access token of that
\* exchange.
C9_RenewedBeforeRequest ==
    \A i \in Entries :
       (/\ log[i].auth # NoHeader
        /\ log[i].token0 = None
        /\ log[i].refresh0 # None) =>
          /\ i > 1
          /\ Renewed(log[i - 1])
          /\ log[i].auth = log[i - 1].body.access

\* C9 witness: a DELETE sent with the token of the lazy renewal before it
C9_DeleteAfterLazyRenewal ==
    \E i \in Entries :
       /\ log[i].method = "DELETE"
       /\ log[i].token0 = None
       /\ i > 1
       /\ log[i - 1].why = "lazy"
       /\ Renewed(log[i - 1])
       /\ log[i].auth = log[i - 1].body.access

\* C10: a token/refresh/ exchange answered with an HTTP error is the last
\* exchange of the call, which raises that error with both stored tokens as
\* they were; after an exchange that succeeded the stored pair is the pair of
\* the latest such response.
C10_RenewalFailureIsTerminal ==
    \A i \in Entries :
       /\ (IsRefresh(log[i]) /\ Failed(log[i])) =>
             /\ i = Len(log)
             /\ phase = "done"
             /\ result = Raised("HTTPError", log[i].status)
             /\ token = log[i].token0
             /\ refresh_token = log[i].refresh0
       /\ (/\ Renewed(log[i])
           /\ ~(i = Len(log) /\ ret # NoRet)
           /\ ~\E j \in Entries : j > i /\ Renewed(log[j])) =>
             /\ token = log[i].body.access
             /\ refresh_token = log[i].body.refresh

\* C10 witness: a lazy renewal succeeded and replaced the pair, the GET was
\* answered 403 and the renewal that followed was refused
C10_RetryRenewalRefused ==
    /\ phase = "done"
    /\ Len(log) = 3
    /\ log[1].why = "lazy" /\ Renewed(log[1])
    /\ log[1].body.refresh # log[1].refresh0
    /\ log[3].why = "retry" /\ Failed(log[3])
    /\ token = log[1].body.access
    /\ refresh_token = log[1].body.refresh

\* C11: once the constructor has returned normally a refresh token is stored
\* in every state, whatever operations, renewals and server answers follow.
C11_RefreshTokenRetained ==
    constructed => refresh_token # None

\* C11 witness: the constructed client has been through a renewal that
\* replaced the refresh token and then through one the server refused
C11_RenewedThenRefused ==
    /\ constructed
    /\ phase = "done"
    /\ \E i \in Entries :
          /\ Renewed(log[i])
          /\ log[i].body.refresh # log[i].refresh0
          /\ refresh_token = log[i].body.refresh
    /\ IsRefresh(log[Len(log)])
    /\ Failed(log[Len(log)])

\* C12: the constructor returns normally only when a complete token pair or
\* complete credentials were given, and otherwise raises ValueError having
\* sent nothing; with a complete pair it sends nothing and stores the pair as
\* given; with credentials and no complete pair it sends exactly one POST
\* token/ without Authorization header and stores the pair of the response.
C12_ConstructionContract ==
    op.name = "__init__" =>
       LET pair == op.token # None /\ op.refresh_token # None
           creds == op.user /\ op.password
       IN  /\ Len(log) <= 1
           /\ \A i \in Entries :
                 /\ log[i].method = "POST"
                 /\ log[i].endpoint = "token/"
                 /\ log[i].auth = NoHeader
                 /\ creds /\ ~pair
           /\ phase = "done" =>
                 /\ result.kind = "return" <=> constructed
                 /\ constructed => (pair \/ creds)
                 /\ ~(pair \/ creds) =>
                       /\ result = Raised("ValueError", 0)
                       /\ log = <<>>
                 /\ pair =>
                       /\ log = <<>>
                       /\ constructed
                       /\ token = op.token
                       /\ refresh_token = op.refresh_token
                 /\ (creds /\ ~pair) =>
                       /\ Len(log) = 1
                       /\ constructed =>
                             /\ token = log[1].body.access
                             /\ refresh_token = log[1].body.refresh
                       /\ ~constructed =>
                             /\ token = None
                             /\ refresh_token = None

\* C12 witness: constructed from credentials and a token without its refresh
\* token; the token given was not kept, the pair of the response was stored
C12_LoggedInWithHalfPair ==
    /\ op.name = "__init__"
    /\ phase = "done"
    /\ op.user /\ op.password
    /\ op.token # None /\ op.refresh_token = None
    /\ constructed
    /\ Len(log) = 1
    /\ token = log[1].body.access
    /\ token # op.token

ProtectedPathGets ==
    {i \in Entries : log[i].method = "GET" /\ log[i].endpoint = "protectedpaths/"}

ProtectedPathPosts ==
    {i \in Entries : log[i].method = "POST" /\ log[i].endpoint = "protectedpaths/"}

\* the GETs of the call that were answered 2xx with a list of records
ReturnedLists == {i \in ProtectedPathGets : ~Failed(log[i]) /\ log[i].body.kind = "list"}

\* C13: add_protected_path, called with a path its request model accepts,
\* sends GET protectedpaths/?source_dir=<path> before any POST protectedpaths/;
\* when the records the last GET returned hold the path, the call raises
\* ResourceExistsError and sends no POST; when they do not, it sends exactly
\* one POST, after that GET.
C13_LookupThenSinglePost ==
    (op.name = "add_protected_path" /\ validate_path(op.source_dir)) =>
       /\ \A i \in ProtectedPathPosts :
             \E j \in ProtectedPathGets :
                /\ j < i
                /\ log[j].data = [source_dir |-> as_posix(op.source_dir)]
       /\ Cardinality(ProtectedPathPosts) <= 1
       /\ (phase = "done" /\ ReturnedLists # {}) =>
             LET last == CHOOSE i \in ReturnedLists : \A j \in ReturnedLists : j <= i
             IN  IF as_posix(op.source_dir) \in log[last].body.items
                 THEN /\ result = Raised("ResourceExistsError", 0)
                      /\ ProtectedPathPosts = {}
                 ELSE /\ Cardinality(ProtectedPathPosts) = 1
                      /\ \A i \in ProtectedPathPosts : last < i

\* a call of _send_get_request with budget n has sent at most n + 1 GETs, and
\* one that ended with every GET answered 403 and every renewal answered with
\* a new pair ended by raising the HTTP error
WithinBudget ==
    op.name = "_send_get_request" =>
       /\ Cardinality(Gets) <= op.retries + 1
       /\ (/\ phase = "done"
           /\ Gets # {}
           /\ \A i \in Gets : log[i].status = Forbidden
           /\ \A i \in Entries : IsRefresh(log[i]) => Renewed(log[i])) =>
             /\ result = Raised("HTTPError", Forbidden)
             /\ Cardinality(Gets) = op.retries + 1

\* C14: for every retry budget n a call of _send_get_request ends, having
\* sent at most n + 1 GETs; when every GET is answered 403 and the renewals
\* succeed it ends by raising the HTTP error, without a value.
C14_GetEndsWithinBudget ==
    /\ []WithinBudget
    /\ (phase = "running" ~> phase = "done")

\* C14 witness: a call with the largest budget ended after budget + 1 GETs,
\* all answered 403, with the HTTP error
C14_BudgetExhausted ==
    /\ op.name = "_send_get_request"
    /\ op.retries = MaxRetries
    /\ phase = "done"
    /\ Cardinality(Gets) = MaxRetries + 1
    /\ \A i \in Gets : log[i].status = Forbidden
    /\ result = Raised("HTTPError", Forbidden)

IsTokenExchange(e) == e.endpoint \in TokenEndpoints

\* C15: a POST token/ or POST token/refresh/ carries no Authorization header
\* and starts no renewal of its own, whatever the session holds: its frame is
\* the innermost one, is never waiting for a renewal, and no token exchange
\* follows another token exchange.
C15_TokenExchangesUnauthenticated ==
    /\ \A i \in Entries :
          IsTokenExchange(log[i]) =>
             /\ log[i].method = "POST"
             /\ log[i].auth = NoHeader
             /\ i > 1 => ~IsTokenExchange(log[i - 1])
    /\ \A k \in 1..Len(stack) :
          IsTokenExchange(stack[k]) =>
             /\ k = Len(stack)
             /\ stack[k].skip_auth
             /\ stack[k].pc = "start"

\* C15 witness: a renewal that began with no access token and a refresh token
\* stored was sent without Authorization header, and the request it was made
\* for followed it
C15_RenewalWithoutToken ==
    \E i \in Entries :
       /\ IsRefresh(log[i])
       /\ log[i].token0 = None
       /\ log[i].refresh0 # None
       /\ log[i].auth = NoHeader
       /\ i < Len(log)
       /\ ~IsTokenExchange(log[i + 1])

\* C16: get_protection_policies requests protectionpolicies/{id}/ only when
\* policy_id was given; without policy_id it requests protectionpolicies/,
\* with ?name= when name was given, else with ?source_dir= when source_dir was
\* given, else without parameters.
C16_PolicyEndpointByPolicyId ==
    op.name = "get_protection_policies" =>
       \A i \in Gets :
          IF op.policy_id # Absent
          THEN log[i].endpoint = "protectionpolicies/" \o ToString(op.policy_id[1]) \o "/"
          ELSE /\ log[i].endpoint = "protectionpolicies/"
               /\ log[i].data = IF op.pname # None THEN [name |-> op.pname]
                                ELSE IF op.source_dir # Absent
                                THEN [source_dir |-> as_posix(op.source_dir[1])]
                                ELSE NoData

\* C18: the DELETE of delete_quota is sent without a request body; answered
\* 2xx, whatever its body, the call returns {status: <status code>}; answered
\* with an error status the call raises the HTTP error and returns nothing.
C18_DeleteReturnsStatus ==
    op.name = "delete_quota" =>
       \A i \in Entries :
          log[i].method = "DELETE" =>
             /\ log[i].data = NoData
             /\ i = Len(log)
             /\ IF Failed(log[i])
                THEN /\ phase = "done"
                     /\ result = Raised("HTTPError", log[i].status)
                ELSE \/ phase = "running" /\ ret = StatusValue(log[i].status)
                     \/ phase = "done" /\ result = Returned(StatusValue(log[i].status))

\* C18 witness: delete_quota answered 200 with a body that is not JSON
\* returned {status: 200}
C18_DeleteWithoutJsonBody ==
    /\ op.name = "delete_quota"
    /\ phase = "done"
    /\ log # <<>>
    /\ log[Len(log)].method = "DELETE"
    /\ log[Len(log)].status = 200
    /\ ~CanDecode(log[Len(log)].body)
    /\ result = Returned(StatusValue(200))

\* the caller's POST token/refresh/ is in flight
RenewalInFlight(c) == callers[c].pc = "renewing"

\* the caller is inside renew_token
InRenewal(c) == callers[c].pc \in {"renewing", "store_access", "store_refresh"}

\* C19: with two callers sharing the client, two token/refresh/ exchanges are
\* never in flight at the same time, and whenever no caller is inside
\* renew_token the stored pair is the pair of the renewal answered last: both
\* tokens come from that one response (the access token may have been dropped
\* since), never from an earlier one.
C19_RenewalMutuallyExclusive ==
    /\ \A c, d \in Callers : (RenewalInFlight(c) /\ RenewalInFlight(d)) => c = d
    /\ (issued > 0 /\ \A c \in Callers : ~InRenewal(c)) =>
          /\ refresh_token = IssuedPair(issued).refresh
          /\ token \in {None, IssuedPair(issued).access}

----------------------------------------------------------------------------
(* Properties of the request models *)

PathClasses == {"QuotaCreate", "ViewCreate", "ProtectedPathCreate", "PathBody",
                "FolderCreateOrUpdate"}

\* the path a built model serializes
SerializedPath(b) ==
    IF b.cls = "ProtectedPathCreate" THEN b.res.model.source_dir ELSE b.res.model.path

\* C6: the path given to a request model is accepted if and only if the
\* string itself matches the pattern, and an accepted path is serialized
\* unchanged.
C6_PathAcceptedIffPattern ==
    built.cls \in PathClasses =>
       /\ built.res.ok =>
             /\ MatchesPattern(built.args.path)
             /\ SerializedPath(built) = built.args.path
       /\ (built.cls \in {"ProtectedPathCreate", "PathBody"}
              /\ MatchesPattern(built.args.path)) => built.res.ok

QuotaClasses == {"QuotaCreate", "QuotaUpdate"}

\* C7: a quota model that constructs has 0 < soft_limit <= hard_limit, with
\* soft_limit = hard_limit when no soft limit was given; construction fails
\* when the soft limit given exceeds the hard limit or a limit is not a
\* positive integer.
C7_QuotaLimitsOrdered ==
    built.cls \in QuotaClasses =>
       LET soft == built.args.soft_limit
           hard == built.args.hard_limit
       IN  /\ built.res.ok =>
                 /\ 0 < built.res.model.soft_limit
                 /\ built.res.model.soft_limit <= built.res.model.hard_limit
                 /\ soft = Absent => built.res.model.soft_limit = built.res.model.hard_limit
           /\ (\/ hard = Absent
               \/ hard # Absent /\ hard[1] <= 0
               \/ soft # Absent /\ soft[1] <= 0
               \/ soft # Absent /\ hard # Absent /\ soft[1] > hard[1]) => ~built.res.ok

\* C7 witness: a QuotaCreate built without a soft limit, which took the hard one
C7_SoftLimitDefaulted ==
    /\ built.cls = "QuotaCreate"
    /\ built.res.ok
    /\ built.args.soft_limit = Absent
    /\ built.res.model.soft_limit = built.args.hard_limit[1]

\* C8: a ViewCreate that constructs has a non-empty protocols set within
\* {SMB, NFS}, a recognized policy_id and, with SMB among the protocols, a
\* share ending with '$'.
C8_ViewInvariants ==
    (built.cls = "ViewCreate" /\ built.res.ok) =>
       LET m == built.res.model
       IN  /\ m.protocols # {}
           /\ m.protocols \subseteq ProtocolEnum
           /\ m.policy_id # Absent
           /\ m.policy_id[1] \in PolicyEnum
           /\ "SMB" \in m.protocols =>
                 /\ m.share # Absent
                 /\ EndsWith(m.share[1], "$")

\* C17: a request model called with a keyword argument outside its schema
\* fails to construct, so no built model holds a field outside its schema.
C17_UnknownFieldsRejected ==
    built.cls = "WithUnknownFields" =>
       /\ built.args.unknown # {} => ~built.res.ok
       /\ built.res.ok => built.res.extra = {}

====
